---- MODULE Spec2Model ----
(***************************************************************************)
(* A model of setup.py, the packaging manifest of the distribution         *)
(* spacetower-notebooks.                                                   *)
(*                                                                         *)
(* The manifest is a script: it imports setup and find_packages, evaluates *)
(* the keyword arguments of the call setup(...) from left to right and     *)
(* then calls setup() with them.  Two of the arguments are computed from   *)
(* the environment of the run: packages (find_packages()) and              *)
(* long_description (open('README.md').read()).  The model runs the script *)
(* one step at a time, again and again, in environments that may differ    *)
(* from one run to the next.                                               *)
(*                                                                         *)
(* Text is a sequence of one-character strings, so that requirement and    *)
(* version strings can be parsed character by character.                   *)
(***************************************************************************)
EXTENDS Integers, Sequences, FiniteSets, TLC

\* ------------------------------------------------------------------------
\* Bounds of the environment
\* ------------------------------------------------------------------------

\* README.md holds at most this many characters.
MaxReadmeLen == 2

CR == "\r"

LF == "\n"

\* The characters a README is made of: an ordinary one and the line ends.
ReadmeChars == {"a", CR, LF}

\* The package directories the source tree of a run may hold.
PackageUniverse == {"notebooks", "tests"}

ReadmeContents == UNION {[1..n -> ReadmeChars] : n \in 0..MaxReadmeLen}

\* README.md in one run: there with some content, absent, not readable by
\* the user, or holding bytes the default text encoding cannot decode.
ReadmeStates ==
    {[status |-> "ok", content |-> c] : c \in ReadmeContents}
        \cup {[status |-> s, content |-> <<>>] :
                  s \in {"missing", "denied", "undecodable"}}

\* ------------------------------------------------------------------------
\* State
\* ------------------------------------------------------------------------

VARIABLES
    readme,     \* README.md as it is during the current run
    found,      \* the packages find_packages() finds during the current run
    pc,         \* where the script is: "import", "args", "read", "done", "error"
    argi,       \* the index in ArgOrder of the next argument to evaluate
    kwargs,     \* the arguments evaluated so far, by keyword
    opens,      \* how often the run has called open('README.md')
    reads,      \* how often the run has called read() on the file
    calls,      \* the argument records setup() was called with in this run
    err,        \* the exception that ended the run, or "none"
    prevCalls   \* calls of the run before this one (<<>> for none or a failed one)

vars == <<readme, found, pc, argi, kwargs, opens, reads, calls, err, prevCalls>>

EmptyKw == [k \in {} |-> <<>>]

\* ------------------------------------------------------------------------
\* The literal arguments of setup()
\* ------------------------------------------------------------------------

name ==
    <<"s", "p", "a", "c", "e", "t", "o", "w", "e", "r", "-",
      "n", "o", "t", "e", "b", "o", "o", "k", "s">>

\* version as a release that left the patch number out.
version_two_part ==
    <<"1", ".", "1">>

version ==
    <<"1", ".", "1", ".", "4">>

description ==
    <<"P", "y", "t", "h", "o", "n", " ", "N", "o", "t", "e", "b", "o", "o",
      "k", "s", " ", "f", "o", "r", " ", "F", "D", "S", " ", "w", "o", "r",
      "k", "f", "l", "o", "w", "s">>

author ==
    <<"E", "x", "o", "t", "r", "a", "i", "l">>

author_email ==
    <<>>

url ==
    <<"h", "t", "t", "p", "s", ":", "/", "/", "g", "i", "t", "h", "u", "b",
      ".", "c", "o", "m", "/", "e", "x", "o", "t", "r", "a", "i", "l", "/",
      "s", "p", "a", "c", "e", "t", "o", "w", "e", "r", "-", "n", "o", "t",
      "e", "b", "o", "o", "k", "s">>

license ==
    <<"M", "I", "T">>

keywords ==
    << <<"F", "D", "S">>, <<"A", "P", "I">>,
       <<"E", "x", "o", "t", "r", "a", "i", "l">> >>

\* install_requires with pandas pinned to one release.
install_requires_pinned ==
    << <<"p", "a", "n", "d", "a", "s", "=", "=", "2", ".", "2", ".", "2">>,
       <<"m", "a", "t", "p", "l", "o", "t", "l", "i", "b", ">", "=", "3", ".", "9", ".", "0">>,
       <<"p", "l", "o", "t", "l", "y", ">", "=", "5", ".", "2", "2", ".", "0">>,
       <<"s", "p", "a", "c", "e", "t", "r", "a", "c", "k", ">", "=", "1", ".", "3", ".", "0">>,
       <<"n", "o", "t", "e", "b", "o", "o", "k", ">", "=", "7", ".", "2", ".", "0">>,
       <<"s", "p", "a", "c", "e", "t", "o", "w", "e", "r", "-", "f", "d", "s", "-", "s", "d", "k", ">", "=", "1", ".", "0", ".", "0">> >>

\* install_requires with the test runner among the run-time requirements.
install_requires_with_pytest ==
    << <<"p", "a", "n", "d", "a", "s", ">", "=", "2", ".", "2", ".", "2">>,
       <<"m", "a", "t", "p", "l", "o", "t", "l", "i", "b", ">", "=", "3", ".", "9", ".", "0">>,
       <<"p", "l", "o", "t", "l", "y", ">", "=", "5", ".", "2", "2", ".", "0">>,
       <<"s", "p", "a", "c", "e", "t", "r", "a", "c", "k", ">", "=", "1", ".", "3", ".", "0">>,
       <<"n", "o", "t", "e", "b", "o", "o", "k", ">", "=", "7", ".", "2", ".", "0">>,
       <<"s", "p", "a", "c", "e", "t", "o", "w", "e", "r", "-", "f", "d", "s", "-", "s", "d", "k", ">", "=", "1", ".", "0", ".", "0">>,
       <<"p", "y", "t", "e", "s", "t", ">", "=", "7", ".", "2", ".", "1">> >>

install_requires ==
    << <<"p", "a", "n", "d", "a", "s", ">", "=", "2", ".", "2", ".", "2">>,
       <<"m", "a", "t", "p", "l", "o", "t", "l", "i", "b", ">", "=",
         "3", ".", "9", ".", "0">>,
       <<"p", "l", "o", "t", "l", "y", ">", "=", "5", ".", "2", "2", ".", "0">>,
       <<"s", "p", "a", "c", "e", "t", "r", "a", "c", "k", ">", "=",
         "1", ".", "3", ".", "0">>,
       <<"n", "o", "t", "e", "b", "o", "o", "k", ">", "=", "7", ".", "2", ".", "0">>,
       <<"s", "p", "a", "c", "e", "t", "o", "w", "e", "r", "-", "f", "d", "s",
         "-", "s", "d", "k", ">", "=", "1", ".", "0", ".", "0">> >>

\* extras_require with the operator of the pytest requirement mistyped.
extras_require_bad_operator ==
    [dev |-> << <<"p", "y", "t", "e", "s", "t", "=", ">", "7", ".", "2", ".", "1">> >>]

extras_require ==
    [dev |-> << <<"p", "y", "t", "e", "s", "t", ">", "=", "7", ".", "2", ".", "1">> >>]

long_description_content_type ==
    <<"t", "e", "x", "t", "/", "m", "a", "r", "k", "d", "o", "w", "n">>

\* The keyword arguments in the order the call lists them, which is the
\* order Python evaluates them in.
ArgOrder ==
    <<"name", "version", "description", "author", "author_email", "url",
      "license", "keywords", "packages", "install_requires",
      "extras_require", "long_description", "long_description_content_type">>

\* The arguments whose value is a literal of the manifest.
LiteralArgs ==
    {"name", "version", "description", "author", "author_email", "url",
     "license", "keywords", "install_requires", "extras_require",
     "long_description_content_type"}

Literal(k) ==
    CASE k = "name" -> name
      [] k = "version" -> version
      [] k = "description" -> description
      [] k = "author" -> author
      [] k = "author_email" -> author_email
      [] k = "url" -> url
      [] k = "license" -> license
      [] k = "keywords" -> keywords
      [] k = "install_requires" -> install_requires
      [] k = "extras_require" -> extras_require
      [] k = "long_description_content_type" -> long_description_content_type

\* ------------------------------------------------------------------------
\* Reading a file in text mode
\* ------------------------------------------------------------------------

RECURSIVE TranslateNewlines(_)
\* open() without a newline argument reads with universal newlines: the
\* line ends "\r\n" and "\r" both come out of read() as "\n".
TranslateNewlines(s) ==
    IF s = <<>> THEN <<>>
    ELSE IF Head(s) = CR
         THEN IF Len(s) >= 2 /\ s[2] = LF
              THEN <<LF>> \o TranslateNewlines(SubSeq(s, 3, Len(s)))
              ELSE <<LF>> \o TranslateNewlines(Tail(s))
         ELSE <<Head(s)>> \o TranslateNewlines(Tail(s))

\* readline() in the place of read(): the text up to the first line end.
TextReadLine(content) ==
    LET text == TranslateNewlines(content)
        ends == {i \in 1..Len(text) : text[i] = LF}
    IN  IF ends = {} THEN text
        ELSE SubSeq(text, 1, CHOOSE i \in ends : \A j \in ends : i <= j)

\* What read() returns for a file of the given content: all of it, to the
\* end of the file, as text.
TextRead(content) ==
    TranslateNewlines(content)

\* ------------------------------------------------------------------------
\* Running the script
\* ------------------------------------------------------------------------

\* A fresh interpreter about to run the script in some environment.
StartRun(r, f) ==
    /\ readme' = r
    /\ found' = f
    /\ pc' = "import"
    /\ argi' = 1
    /\ kwargs' = EmptyKw
    /\ opens' = 0
    /\ reads' = 0
    /\ calls' = <<>>
    /\ err' = "none"

Init ==
    /\ readme \in ReadmeStates
    /\ found \in SUBSET PackageUniverse
    /\ pc = "import"
    /\ argi = 1
    /\ kwargs = EmptyKw
    /\ opens = 0
    /\ reads = 0
    /\ calls = <<>>
    /\ err = "none"
    /\ prevCalls = <<>>

\* from setuptools import setup, find_packages
Import ==
    /\ pc = "import"
    /\ pc' = "args"
    /\ UNCHANGED <<readme, found, argi, kwargs, opens, reads, calls, err, prevCalls>>

\* EvalLiteral with a requirement list that depends on the source tree: the
\* test runner is required when the tree holds a tests package.
EvalLiteralByEnvironment ==
    /\ pc = "args"
    /\ argi <= Len(ArgOrder)
    /\ ArgOrder[argi] \in LiteralArgs
    /\ kwargs' = kwargs @@
           (ArgOrder[argi] :>
                IF ArgOrder[argi] = "install_requires" /\ "tests" \in found
                THEN install_requires_with_pytest
                ELSE Literal(ArgOrder[argi]))
    /\ argi' = argi + 1
    /\ UNCHANGED <<readme, found, pc, opens, reads, calls, err, prevCalls>>

\* An argument that is a literal evaluates to that literal.
EvalLiteral ==
    /\ pc = "args"
    /\ argi <= Len(ArgOrder)
    /\ ArgOrder[argi] \in LiteralArgs
    /\ kwargs' = kwargs @@ (ArgOrder[argi] :> Literal(ArgOrder[argi]))
    /\ argi' = argi + 1
    /\ UNCHANGED <<readme, found, pc, opens, reads, calls, err, prevCalls>>

\* packages=find_packages()
FindPackages ==
    /\ pc = "args"
    /\ argi <= Len(ArgOrder)
    /\ ArgOrder[argi] = "packages"
    /\ kwargs' = kwargs @@ ("packages" :> found)
    /\ argi' = argi + 1
    /\ UNCHANGED <<readme, found, pc, opens, reads, calls, err, prevCalls>>

\* OpenReadme inside a try/except that puts an empty long description in
\* the place of a README that cannot be opened.
OpenReadmeSwallow ==
    /\ pc = "args"
    /\ argi <= Len(ArgOrder)
    /\ ArgOrder[argi] = "long_description"
    /\ opens' = opens + 1
    /\ \/ /\ readme.status \in {"ok", "undecodable"}
          /\ pc' = "read"
          /\ UNCHANGED <<kwargs, argi>>
       \/ /\ readme.status \in {"missing", "denied"}
          /\ kwargs' = kwargs @@ ("long_description" :> <<>>)
          /\ argi' = argi + 1
          /\ pc' = "args"
    /\ UNCHANGED <<readme, found, reads, calls, err, prevCalls>>

\* OpenReadme that opens the file a first time to see whether it is there.
OpenReadmeTwice ==
    /\ pc = "args"
    /\ argi <= Len(ArgOrder)
    /\ ArgOrder[argi] = "long_description"
    /\ opens' = opens + 2
    /\ \/ /\ readme.status \in {"ok", "undecodable"}
          /\ pc' = "read"
          /\ err' = err
       \/ /\ readme.status = "missing"
          /\ pc' = "error"
          /\ err' = "FileNotFoundError"
       \/ /\ readme.status = "denied"
          /\ pc' = "error"
          /\ err' = "PermissionError"
    /\ UNCHANGED <<readme, found, argi, kwargs, reads, calls, prevCalls>>

\* open('README.md'): a file object, or the OSError of a file that is not
\* there or may not be read.  Nothing in the script catches the error.
OpenReadme ==
    /\ pc = "args"
    /\ argi <= Len(ArgOrder)
    /\ ArgOrder[argi] = "long_description"
    /\ opens' = opens + 1
    /\ \/ /\ readme.status \in {"ok", "undecodable"}
          /\ pc' = "read"
          /\ err' = err
       \/ /\ readme.status = "missing"
          /\ pc' = "error"
          /\ err' = "FileNotFoundError"
       \/ /\ readme.status = "denied"
          /\ pc' = "error"
          /\ err' = "PermissionError"
    /\ UNCHANGED <<readme, found, argi, kwargs, reads, calls, prevCalls>>

\* .read() on the file object: the text of the whole file, or the
\* UnicodeDecodeError of bytes that are no text.
ReadReadme ==
    /\ pc = "read"
    /\ reads' = reads + 1
    /\ \/ /\ readme.status = "ok"
          /\ kwargs' = kwargs @@ ("long_description" :> TextRead(readme.content))
          /\ argi' = argi + 1
          /\ pc' = "args"
          /\ err' = err
       \/ /\ readme.status = "undecodable"
          /\ pc' = "error"
          /\ err' = "UnicodeDecodeError"
          /\ UNCHANGED <<kwargs, argi>>
    /\ UNCHANGED <<readme, found, opens, calls, prevCalls>>

\* setup(...) is called once every argument has its value.
CallSetup ==
    /\ pc = "args"
    /\ argi = Len(ArgOrder) + 1
    /\ calls' = Append(calls, kwargs)
    /\ pc' = "done"
    /\ UNCHANGED <<readme, found, argi, kwargs, opens, reads, err, prevCalls>>

\* The script is run again, by a new interpreter, in an environment that
\* need not be the one of the run before.
NewRun ==
    /\ pc \in {"done", "error"}
    /\ prevCalls' = calls
    /\ \E r \in ReadmeStates, f \in SUBSET PackageUniverse : StartRun(r, f)

Next ==
    \/ Import
    \/ EvalLiteral
    \/ FindPackages
    \/ OpenReadme
    \/ ReadReadme
    \/ CallSetup
    \/ NewRun

Spec == Init /\ [][Next]_vars

TypeOK ==
    /\ readme \in ReadmeStates
    /\ found \subseteq PackageUniverse
    /\ pc \in {"import", "args", "read", "done", "error"}
    /\ argi \in 1..(Len(ArgOrder) + 1)
    /\ DOMAIN kwargs = {ArgOrder[i] : i \in 1..(argi - 1)}
    /\ opens \in 0..1
    /\ reads \in 0..1
    /\ Len(calls) <= 1
    /\ Len(prevCalls) <= 1

\* ------------------------------------------------------------------------
\* Requirement and version strings, as the packaging tool parses them
\* ------------------------------------------------------------------------

Letters ==
    {"a", "b", "c", "d", "e", "f", "g", "h", "i", "j", "k", "l", "m",
     "n", "o", "p", "q", "r", "s", "t", "u", "v", "w", "x", "y", "z",
     "A", "B", "C", "D", "E", "F", "G", "H", "I", "J", "K", "L", "M",
     "N", "O", "P", "Q", "R", "S", "T", "U", "V", "W", "X", "Y", "Z"}

Digits ==
    {"0", "1", "2", "3", "4", "5", "6", "7", "8", "9"}

NameChars ==
    Letters \cup Digits \cup {"-"}

\* The comparison operators of a version specifier.
Operators ==
    { <<"=", "=", "=">>, <<"=", "=">>, <<"!", "=">>, <<"<", "=">>,
      <<">", "=">>, <<"~", "=">>, <<"<">>, <<">">> }

MinimumOp ==
    <<">", "=">>

HasPrefix(s, p) ==
    /\ Len(p) <= Len(s)
    /\ SubSeq(s, 1, Len(p)) = p

\* The length of the longest prefix of s made of name characters.
NameLen(s) ==
    CHOOSE n \in 0..Len(s) :
        /\ \A i \in 1..n : s[i] \in NameChars
        /\ n = Len(s) \/ s[n + 1] \notin NameChars

\* Dot-separated non-negative integers: digits and dots, no empty component.
IsVersion(v) ==
    /\ Len(v) > 0
    /\ \A i \in 1..Len(v) : v[i] \in Digits \cup {"."}
    /\ v[1] # "."
    /\ v[Len(v)] # "."
    /\ \A i \in 1..(Len(v) - 1) : ~(v[i] = "." /\ v[i + 1] = ".")

\* MAJOR.MINOR.PATCH: three components, none with a leading zero.
IsSemVer(v) ==
    /\ IsVersion(v)
    /\ Cardinality({i \in 1..Len(v) : v[i] = "."}) = 2
    /\ \A i \in 1..Len(v) :
           (v[i] = "0" /\ (i = 1 \/ v[i - 1] = "."))
               => (i = Len(v) \/ v[i + 1] = ".")

\* A requirement string read as name, operator, version; ok tells whether
\* the whole string is of that form.
ParseRequirement(s) ==
    LET n == NameLen(s)
        rest == SubSeq(s, n + 1, Len(s))
        ops == {o \in Operators : HasPrefix(rest, o)}
    IN  IF n = 0 \/ ops = {}
        THEN [ok |-> FALSE, name |-> SubSeq(s, 1, n), op |-> <<>>, version |-> <<>>]
        ELSE LET o == CHOOSE o \in ops : \A q \in ops : Len(q) <= Len(o)
                 v == SubSeq(rest, Len(o) + 1, Len(rest))
             IN  [ok |-> IsVersion(v), name |-> SubSeq(s, 1, n), op |-> o,
                  version |-> v]

Range(seq) ==
    {seq[i] : i \in 1..Len(seq)}

\* The requirements of an installation that asks for the given extras.
RequirementSet(c, extras) ==
    Range(c.install_requires)
        \cup UNION {Range(c.extras_require[e]) :
                        e \in extras \cap DOMAIN c.extras_require}

PandasName == <<"p", "a", "n", "d", "a", "s">>

MatplotlibName == <<"m", "a", "t", "p", "l", "o", "t", "l", "i", "b">>

PlotlyName == <<"p", "l", "o", "t", "l", "y">>

SpacetrackName == <<"s", "p", "a", "c", "e", "t", "r", "a", "c", "k">>

NotebookName == <<"n", "o", "t", "e", "b", "o", "o", "k">>

SdkName ==
    <<"s", "p", "a", "c", "e", "t", "o", "w", "e", "r", "-", "f", "d", "s",
      "-", "s", "d", "k">>

PytestName == <<"p", "y", "t", "e", "s", "t">>

RuntimeDistributions ==
    {PandasName, MatplotlibName, PlotlyName, SpacetrackName, NotebookName,
     SdkName}

\* The run has called setup(); c is what it called it with.
SetupCalled == calls # <<>>

\* ------------------------------------------------------------------------
\* Properties
\* ------------------------------------------------------------------------

\* C1: the install_requires handed to setup() holds exactly six
\* requirements, one for each of pandas, matplotlib, plotly, spacetrack,
\* notebook and spacetower-fds-sdk, and each is a single minimum-version
\* constraint: name, ">=", version, and nothing more (no second clause, no
\* upper bound, no pin).
C1_SixMinimumRequirements ==
    \A i \in 1..Len(calls) :
        LET ir == calls[i].install_requires
        IN  /\ Len(ir) = 6
            /\ {ParseRequirement(ir[j]).name : j \in 1..Len(ir)}
                   = RuntimeDistributions
            /\ Cardinality(RuntimeDistributions) = 6
            /\ \A j \in 1..Len(ir) :
                   /\ ParseRequirement(ir[j]).ok
                   /\ ParseRequirement(ir[j]).op = MinimumOp

C1_Witness ==
    /\ pc = "done"
    /\ Len(calls) = 1
    /\ Len(calls[1].install_requires) = 6

\* C2: pytest is a development-only dependency: it is declared under the
\* extra "dev", no requirement of install_requires names it, so an
\* installation without extras requires no pytest, and an installation with
\* the extra "dev" requires the run-time set plus exactly one requirement,
\* which is the one for pytest.
C2_PytestOnlyInDevExtra ==
    \A i \in 1..Len(calls) :
        LET c == calls[i]
            base == RequirementSet(c, {})
            dev == RequirementSet(c, {"dev"})
        IN  /\ "dev" \in DOMAIN c.extras_require
            /\ base = Range(c.install_requires)
            /\ \A r \in base : ParseRequirement(r).name # PytestName
            /\ base \subseteq dev
            /\ Cardinality(dev \ base) = 1
            /\ \A r \in dev \ base : ParseRequirement(r).name = PytestName

C2_Witness ==
    /\ SetupCalled
    /\ \E r \in RequirementSet(calls[1], {"dev"}) :
           /\ ParseRequirement(r).name = PytestName
           /\ r \notin RequirementSet(calls[1], {})

\* C6: the version handed to setup() is a semantic version: three
\* dot-separated non-negative integers without leading zeros, and no other
\* character.
C6_VersionIsSemVer ==
    \A i \in 1..Len(calls) : IsSemVer(calls[i].version)

C6_Witness ==
    /\ SetupCalled
    /\ Len(calls[1].version) = 5
    /\ pc = "done"

\* C7: each of the seven requirement strings handed to setup(), the six of
\* install_requires and the one of the extra "dev", is a non-empty name of
\* letters, digits and hyphens, then one comparison operator, then a version
\* of dot-separated non-negative integers, and nothing else.
C7_RequirementsWellFormed ==
    \A i \in 1..Len(calls) :
        LET all == RequirementSet(calls[i], DOMAIN calls[i].extras_require)
        IN  /\ Cardinality(all) = 7
            /\ \A r \in all :
                   /\ ParseRequirement(r).ok
                   /\ Len(ParseRequirement(r).name) > 0
                   /\ ParseRequirement(r).op \in Operators
                   /\ IsVersion(ParseRequirement(r).version)
                   /\ r = ParseRequirement(r).name \o ParseRequirement(r).op
                              \o ParseRequirement(r).version

C7_Witness ==
    /\ SetupCalled
    /\ Cardinality(RequirementSet(calls[1], {"dev"})) = 7

\* C3: when README.md is missing or cannot be read, the run ends in an
\* error the script does not catch: the error is raised while the argument
\* long_description is evaluated, setup() is not called, and nothing is
\* handed to the packaging tool.
C3_ReadErrorEndsRun ==
    /\ readme.status # "ok" =>
           /\ calls = <<>>
           /\ pc # "done"
           /\ "long_description" \notin DOMAIN kwargs
    /\ pc = "error" <=> err # "none"
    /\ pc = "error" =>
           /\ readme.status # "ok"
           /\ err \in {"FileNotFoundError", "PermissionError", "UnicodeDecodeError"}
           /\ argi <= Len(ArgOrder)
           /\ ArgOrder[argi] = "long_description"
    /\ (readme.status # "ok" /\ pc = "args") => argi <= Len(ArgOrder)
    /\ (readme.status \in {"missing", "denied"}) => pc # "read"

C3_Witness ==
    /\ readme.status = "missing"
    /\ pc = "error"
    /\ err = "FileNotFoundError"
    /\ calls = <<>>

MetadataFields ==
    {"name", "version", "description", "author", "url", "license",
     "keywords", "long_description"}

\* The text of a file read with universal newlines, said without
\* recursion: every line end "\n" that follows a "\r" is dropped, and
\* every "\r" is then a "\n".
UniversalNewlines(s) ==
    LET F[i \in 0..Len(s)] ==
            IF i = 0 THEN <<>>
            ELSE IF s[i] = LF /\ i > 1 /\ s[i - 1] = CR
                 THEN F[i - 1]
                 ELSE Append(F[i - 1], IF s[i] = CR THEN LF ELSE s[i])
    IN  F[Len(s)]

\* C4 as stated: every call of setup() carries the metadata fields, the
\* content type text/markdown, and a long description that is exactly the
\* content of README.md, whatever that content is.
C4_LongDescriptionIsFileContent ==
    \A i \in 1..Len(calls) :
        /\ MetadataFields \subseteq DOMAIN calls[i]
        /\ calls[i].long_description = readme.content
        /\ calls[i].long_description_content_type = long_description_content_type

\* C4, amended: every call of setup() carries the metadata fields name,
\* version, description, author, url, license, keywords and
\* long_description, with the content type text/markdown, and the long
\* description is the full content of README.md as text-mode read() returns
\* it: every character in order, with each line end "\r\n" or "\r" turned
\* into "\n".  It is the content itself when README.md has no "\r".
C4_LongDescriptionIsTextOfReadme ==
    \A i \in 1..Len(calls) :
        /\ MetadataFields \subseteq DOMAIN calls[i]
        /\ calls[i].long_description = UniversalNewlines(readme.content)
        /\ CR \notin Range(readme.content)
               => calls[i].long_description = readme.content
        /\ calls[i].long_description_content_type
               = <<"t", "e", "x", "t", "/", "m", "a", "r", "k", "d", "o", "w", "n">>

C4_Witness ==
    /\ SetupCalled
    /\ readme.content = <<CR, LF>>
    /\ calls[1].long_description = <<LF>>

\* C5 as stated: a run that has ended has opened README.md exactly once and
\* read it exactly once, and has called setup() at most once.
C5_OpenedAndReadExactlyOnce ==
    pc \in {"done", "error"} =>
        /\ opens = 1
        /\ reads = 1
        /\ Len(calls) <= 1

\* C5, amended: a run goes through the manifest once and in order:
\* README.md is opened exactly once, and read exactly once when the open
\* succeeds (not at all when it fails); the read has completed before
\* setup() is entered; setup() is called at most once per run, and exactly
\* once by a run that ends without error.
C5_OnceAndInOrder ==
    /\ opens <= 1
    /\ reads <= opens
    /\ Len(calls) <= 1
    /\ SetupCalled =>
           /\ opens = 1
           /\ reads = 1
           /\ "long_description" \in DOMAIN calls[1]
    /\ pc \in {"done", "error"} => opens = 1
    /\ pc = "done" => (reads = 1 /\ Len(calls) = 1)
    /\ pc = "error" =>
           reads = (IF err \in {"FileNotFoundError", "PermissionError"} THEN 0 ELSE 1)
    /\ pc = "read" => (opens = 1 /\ reads = 0)

C5_Witness ==
    /\ pc = "done"
    /\ opens = 1
    /\ reads = 1
    /\ Len(calls) = 1
    /\ prevCalls = <<>>

\* C9: what a run declares does not depend on its environment: two
\* successful runs, whatever README.md held and whatever packages were
\* found in each, call setup() with the same install_requires and
\* extras_require (and name, version and license); the two calls differ in
\* long_description and packages at most.
C9_DeclarationsIndependentOfEnvironment ==
    \A i \in 1..Len(calls), j \in 1..Len(prevCalls) :
        LET c == calls[i]
            p == prevCalls[j]
        IN  /\ DOMAIN c = DOMAIN p
            /\ c.install_requires = p.install_requires
            /\ c.extras_require = p.extras_require
            /\ c.name = p.name
            /\ c.version = p.version
            /\ c.license = p.license
            /\ \A k \in DOMAIN c \ {"long_description", "packages"} : c[k] = p[k]

C9_Witness ==
    /\ SetupCalled
    /\ prevCalls # <<>>
    /\ calls[1].long_description # prevCalls[1].long_description
    /\ calls[1].packages # prevCalls[1].packages

====
